---------------------------- MODULE Spec2Model ----------------------------
(***************************************************************************)
(* Cosa VWI (Virtual Wire Interface): the transmitter's frame assembly and *)
(* bit-banging, the receiver's software PLL and framing, the timer         *)
(* interrupt that drives both, and the foreground send/recv calls.         *)
(*                                                                         *)
(* Two nodes tick in lockstep.  The remote node has a registered           *)
(* Transmitter only; the local node has a registered Transmitter and a     *)
(* registered Receiver whose input pin is wired to the remote output pin.  *)
(***************************************************************************)
EXTENDS Integers, Sequences, FiniteSets, TLC

(***************************************************************************)
(* Program constants.                                                      *)
(***************************************************************************)
SAMPLES_PER_BIT == 8
RAMP_MAX == 160
RAMP_INC == RAMP_MAX \div SAMPLES_PER_BIT
RAMP_TRANSITION == RAMP_MAX \div 2
RAMP_ADJUST == 9
RAMP_INC_RETARD == RAMP_INC - RAMP_ADJUST
RAMP_INC_ADVANCE == RAMP_INC + RAMP_ADJUST
MESSAGE_MAX == 30
PAYLOAD_MAX == MESSAGE_MAX - 3
HEADER_MAX == 8
SYMBOLS_MAX == HEADER_MAX + 2 * MESSAGE_MAX
START_SYMBOL == 2872   \* 0xb38
CRC_SEED == 65535      \* 0xffff
CRC_RESIDUE == 61624   \* 0xf0b8

(***************************************************************************)
(* Bounds of the model.                                                    *)
(***************************************************************************)
MaxLen == 2
MaxTicks == 40

(***************************************************************************)
(* Fixed-width integer helpers.                                            *)
(***************************************************************************)
RECURSIVE Pow2(_)
Pow2(n) == IF n = 0 THEN 1 ELSE 2 * Pow2(n - 1)

\* Bitwise exclusive or / or of two 16-bit values, bit by bit.
XorBit(a, b, w) == ((((a \div w) % 2) + ((b \div w) % 2)) % 2) * w
OrBit(a, b, w) == (IF ((a \div w) % 2) + ((b \div w) % 2) > 0 THEN 1 ELSE 0) * w

Xor(a, b) ==
    XorBit(a, b, 1) + XorBit(a, b, 2) + XorBit(a, b, 4) + XorBit(a, b, 8)
    + XorBit(a, b, 16) + XorBit(a, b, 32) + XorBit(a, b, 64) + XorBit(a, b, 128)
    + XorBit(a, b, 256) + XorBit(a, b, 512) + XorBit(a, b, 1024)
    + XorBit(a, b, 2048) + XorBit(a, b, 4096) + XorBit(a, b, 8192)
    + XorBit(a, b, 16384) + XorBit(a, b, 32768)

Or(a, b) ==
    OrBit(a, b, 1) + OrBit(a, b, 2) + OrBit(a, b, 4) + OrBit(a, b, 8)
    + OrBit(a, b, 16) + OrBit(a, b, 32) + OrBit(a, b, 64) + OrBit(a, b, 128)
    + OrBit(a, b, 256) + OrBit(a, b, 512) + OrBit(a, b, 1024)
    + OrBit(a, b, 2048) + OrBit(a, b, 4096) + OrBit(a, b, 8192)
    + OrBit(a, b, 16384) + OrBit(a, b, 32768)

U8(x) == x % 256
U16(x) == x % 65536
Bit(x, n) == (x \div Pow2(n)) % 2

(***************************************************************************)
(* Symbol codec.                                                           *)
(***************************************************************************)
symbols ==
    [n \in 0..15 |->
        CASE n = 0 -> 13 [] n = 1 -> 14 [] n = 2 -> 19 [] n = 3 -> 21
          [] n = 4 -> 22 [] n = 5 -> 25 [] n = 6 -> 26 [] n = 7 -> 28
          [] n = 8 -> 35 [] n = 9 -> 37 [] n = 10 -> 38 [] n = 11 -> 41
          [] n = 12 -> 42 [] n = 13 -> 44 [] n = 14 -> 50 [] n = 15 -> 52]

RECURSIVE Scan6to4(_, _)
Scan6to4(symbol, i) ==
    IF i >= 16 THEN 0
    ELSE IF symbol = symbols[i] THEN i
    ELSE Scan6to4(symbol, i + 1)

\* Mutant: a symbol that is not in the table decodes to 15.
symbol_6to4_miss15(symbol) ==
    IF \E i \in 0..15 : symbols[i] = symbol THEN Scan6to4(symbol, 0) ELSE 15

\* Mutant: the scan skips the last table entry.
symbol_6to4_short(symbol) ==
    IF symbol = symbols[15] THEN 0 ELSE Scan6to4(symbol, 0)

symbol_6to4(symbol) == Scan6to4(symbol, 0)

(***************************************************************************)
(* Frame checksum.                                                         *)
(***************************************************************************)
crc_ccitt_update(crc, data) ==
    LET d1 == Xor(data, crc % 256)
        d2 == Xor(d1, U8(d1 * 16))
    IN  U16(Xor(Xor(Or(d2 * 256, crc \div 256), d2 \div 16), d2 * 8))

RECURSIVE CrcFrom(_, _, _, _)
CrcFrom(crc, ptr, i, count) ==
    IF i >= count THEN crc
    ELSE LET next == crc_ccitt_update(crc, ptr[i])
         IN  IF next >= 0 THEN CrcFrom(next, ptr, i + 1, count) ELSE next

CRC(ptr, count) == CrcFrom(CRC_SEED, ptr, 0, count)

\* Mutant: the two symbols of the start marker transposed.
header_swapped ==
    [i \in 0..(HEADER_MAX - 1) |->
        CASE i = 6 -> 44 [] i = 7 -> 56 [] OTHER -> 42]

header ==
    [i \in 0..(HEADER_MAX - 1) |->
        CASE i = 6 -> 56 [] i = 7 -> 44 [] OTHER -> 42]


(***************************************************************************)
(* Transmitter object: the symbol buffer, its indices and its output pin.  *)
(***************************************************************************)
TransmitterInit ==
    [m_buffer |-> [i \in 0..(SYMBOLS_MAX - 1) |-> 0],
     m_length |-> 0, m_index |-> 0, m_bit |-> 0, m_sample |-> 0,
     m_enabled |-> FALSE, m_msg_count |-> 0, pin |-> 0]

\* Mutant: the sample counter is not rewound to 0.
begin_late(t) ==
    [t EXCEPT !.m_buffer = [i \in 0..(SYMBOLS_MAX - 1) |->
                               IF i < HEADER_MAX THEN header[i] ELSE t.m_buffer[i]],
              !.m_index = 0, !.m_bit = 0, !.m_sample = 1, !.m_enabled = TRUE]

\* Transmitter::begin: copy the header, rewind, enable.
begin(t) ==
    [t EXCEPT !.m_buffer = [i \in 0..(SYMBOLS_MAX - 1) |->
                               IF i < HEADER_MAX THEN header[i] ELSE t.m_buffer[i]],
              !.m_index = 0, !.m_bit = 0, !.m_sample = 0, !.m_enabled = TRUE]

\* Transmitter::end: the transmitter is disabled; the output pin is
\* either left as it is or driven low.
end(t, clears) ==
    [t EXCEPT !.m_enabled = FALSE, !.pin = IF clears THEN 0 ELSE t.pin]

\* The bytes {count, payload} that send runs through the CRC.
SendBytes(buf, len) ==
    [i \in 0..len |-> IF i = 0 THEN U8(len + 3) ELSE buf[i - 1]]

\* Mutant: the CRC appended without the complement.
SendFcs_plain(buf, len) == CrcFrom(CRC_SEED, SendBytes(buf, len), 0, len + 1)

\* The complemented CRC that send appends.
SendFcs(buf, len) == U16(65535 - CrcFrom(CRC_SEED, SendBytes(buf, len), 0, len + 1))

\* The symbols p[0..ix) that send writes behind the header.
SendSymbols(buf, len) ==
    LET count == U8(len + 3)
        crc == SendFcs(buf, len)
        ix == 2 * len + 6
    IN  [k \in 0..(ix - 1) |->
            IF k = 0 THEN symbols[count \div 16]
            ELSE IF k = 1 THEN symbols[count % 16]
            ELSE IF k < 2 + 2 * len THEN
                (IF k % 2 = 0 THEN symbols[buf[(k - 2) \div 2] \div 16]
                 ELSE symbols[buf[(k - 2) \div 2] % 16])
            ELSE IF k = 2 + 2 * len THEN symbols[(crc \div 16) % 16]
            ELSE IF k = 3 + 2 * len THEN symbols[crc % 16]
            ELSE IF k = 4 + 2 * len THEN symbols[(crc \div 4096) % 16]
            ELSE symbols[(crc \div 256) % 16]]

\* Mutant: the header is left out of the symbol count.
SendAssemble_nohdr(t, buf, len) ==
    LET p == SendSymbols(buf, len)
        ix == U8(2 * len + 6)
        filled == [t EXCEPT !.m_buffer = [i \in 0..(SYMBOLS_MAX - 1) |->
                                IF i >= HEADER_MAX /\ i < HEADER_MAX + ix
                                THEN p[i - HEADER_MAX] ELSE t.m_buffer[i]],
                            !.m_length = ix]
    IN  begin(filled)

\* Transmitter::send once await() has returned: assemble and arm.
SendAssemble(t, buf, len) ==
    LET p == SendSymbols(buf, len)
        ix == U8(2 * len + 6)
        filled == [t EXCEPT !.m_buffer = [i \in 0..(SYMBOLS_MAX - 1) |->
                                IF i >= HEADER_MAX /\ i < HEADER_MAX + ix
                                THEN p[i - HEADER_MAX] ELSE t.m_buffer[i]],
                            !.m_length = U8(ix + HEADER_MAX)]
    IN  begin(filled)

\* Mutant: the limit off by one.
SendRefused_plus1(len) == len > PAYLOAD_MAX + 1

\* Transmitter::send up to await(): TRUE when the call is refused.
SendRefused(len) == len > PAYLOAD_MAX

\* Mutant: await() returns while the transmission is in progress.
AwaitDone_any(t) == TRUE

\* Transmitter::await: TRUE when its loop is left.
AwaitDone(t) == ~t.m_enabled

\* Mutant: the finished transmitter is counted but not disabled.
TxStep_noend(t, clears) ==
    IF ~t.m_enabled THEN
        [t EXCEPT !.m_sample = IF t.m_sample > 7 THEN 0 ELSE t.m_sample]
    ELSE
        LET fire == t.m_sample = 0
            s1 == U8(t.m_sample + 1)
            t1 == [t EXCEPT !.m_sample = s1]
            t2 == IF ~fire THEN t1
                  ELSE IF t1.m_index >= t1.m_length THEN
                      [t1 EXCEPT !.m_msg_count = t1.m_msg_count + 1]
                  ELSE LET lvl == Bit(t1.m_buffer[t1.m_index], t1.m_bit)
                           b1 == U8(t1.m_bit + 1)
                       IN  [t1 EXCEPT !.pin = lvl,
                                      !.m_bit = IF b1 >= 6 THEN 0 ELSE b1,
                                      !.m_index = IF b1 >= 6 THEN U8(t1.m_index + 1)
                                                  ELSE t1.m_index]
        IN  [t2 EXCEPT !.m_sample = IF t2.m_sample > 7 THEN 0 ELSE t2.m_sample]

\* The transmitter block of the interrupt handler.
TxStep(t, clears) ==
    IF ~t.m_enabled THEN
        [t EXCEPT !.m_sample = IF t.m_sample > 7 THEN 0 ELSE t.m_sample]
    ELSE
        LET fire == t.m_sample = 0
            s1 == U8(t.m_sample + 1)
            t1 == [t EXCEPT !.m_sample = s1]
            t2 == IF ~fire THEN t1
                  ELSE IF t1.m_index >= t1.m_length THEN
                      [end(t1, clears) EXCEPT !.m_msg_count = t1.m_msg_count + 1]
                  ELSE LET lvl == Bit(t1.m_buffer[t1.m_index], t1.m_bit)
                           b1 == U8(t1.m_bit + 1)
                       IN  [t1 EXCEPT !.pin = lvl,
                                      !.m_bit = IF b1 >= 6 THEN 0 ELSE b1,
                                      !.m_index = IF b1 >= 6 THEN U8(t1.m_index + 1)
                                                  ELSE t1.m_index]
        IN  [t2 EXCEPT !.m_sample = IF t2.m_sample > 7 THEN 0 ELSE t2.m_sample]

(***************************************************************************)
(* Receiver object and its software PLL.                                   *)
(***************************************************************************)
ReceiverInit ==
    [m_enabled |-> TRUE, m_sample |-> 0, m_last_sample |-> 0,
     m_integrator |-> 0, m_pll_ramp |-> 0, m_bits |-> 0, m_active |-> FALSE,
     m_bit_count |-> 0, m_length |-> 0, m_count |-> 0,
     m_buffer |-> [i \in 0..(MESSAGE_MAX - 1) |-> 0],
     m_done |-> FALSE, m_good |-> 0, m_bad |-> 0]

\* Mutant: the ramp runs free, a transition does not correct it.
PLLRamp_free(r) ==
    LET integ == IF r.m_sample # 0 THEN U8(r.m_integrator + 1) ELSE r.m_integrator
    IN  [r EXCEPT !.m_integrator = integ,
                  !.m_pll_ramp = U8(r.m_pll_ramp + RAMP_INC),
                  !.m_last_sample = r.m_sample]

\* Lines 120-132: integrate the sample and move the ramp.
PLLRamp(r) ==
    LET integ == IF r.m_sample # 0 THEN U8(r.m_integrator + 1) ELSE r.m_integrator
    IN  IF r.m_sample # r.m_last_sample
        THEN [r EXCEPT !.m_integrator = integ,
                       !.m_pll_ramp = U8(r.m_pll_ramp +
                            (IF r.m_pll_ramp < RAMP_TRANSITION
                             THEN RAMP_INC_RETARD ELSE RAMP_INC_ADVANCE)),
                       !.m_last_sample = r.m_sample]
        ELSE [r EXCEPT !.m_integrator = integ,
                       !.m_pll_ramp = U8(r.m_pll_ramp + RAMP_INC)]

\* Mutant: the integrator is not cleared at the boundary.
PLLVote_keep(r) ==
    LET shifted == r.m_bits \div 2
    IN  [r EXCEPT !.m_bits = IF r.m_integrator >= 5 THEN Or(shifted, 2048) ELSE shifted,
                  !.m_pll_ramp = U8(r.m_pll_ramp + 256 - RAMP_MAX)]

\* Mutant: the ramp restarts from 0 at the boundary.
PLLVote_zero(r) ==
    LET shifted == r.m_bits \div 2
    IN  [r EXCEPT !.m_bits = IF r.m_integrator >= 5 THEN Or(shifted, 2048) ELSE shifted,
                  !.m_pll_ramp = 0,
                  !.m_integrator = 0]

\* Mutant: the vote threshold one lower.
PLLVote_ge4(r) ==
    LET shifted == r.m_bits \div 2
    IN  [r EXCEPT !.m_bits = IF r.m_integrator >= 4 THEN Or(shifted, 2048) ELSE shifted,
                  !.m_pll_ramp = U8(r.m_pll_ramp + 256 - RAMP_MAX),
                  !.m_integrator = 0]

\* Lines 136-146: the majority vote at a bit boundary.
PLLVote(r) ==
    LET shifted == r.m_bits \div 2
    IN  [r EXCEPT !.m_bits = IF r.m_integrator >= 5 THEN Or(shifted, 2048) ELSE shifted,
                  !.m_pll_ramp = U8(r.m_pll_ramp + 256 - RAMP_MAX),
                  !.m_integrator = 0]

\* Mutant: the two nibbles transposed.
PLLData_swapped(r) ==
    U8(Or(symbol_6to4(U8(r.m_bits \div 64)) * 16, symbol_6to4(r.m_bits % 64)))

\* The byte decoded from the 12-bit window (lines 155-156).
PLLData(r) == U8(Or(symbol_6to4(r.m_bits % 64) * 16, symbol_6to4(U8(r.m_bits \div 64))))

\* Mutant: the upper limit off by one.
BadCount_high31(count) == count < 4 \/ count > MESSAGE_MAX + 1

\* Mutant: no upper limit.
BadCount_nomax(count) == count < 4

\* Mutant: the lower limit off by one.
BadCount_low3(count) == count < 3 \/ count > MESSAGE_MAX

\* TRUE when the first decoded byte is no sensible length (line 167).
BadCount(count) == count < 4 \/ count > MESSAGE_MAX

\* Mutant: a byte is decoded after 13 bits.
PLLActive_late(r) ==
    LET bc == U8(r.m_bit_count + 1)
        r1 == [r EXCEPT !.m_bit_count = bc]
    IN  IF bc < 13 THEN r1
        ELSE
            LET data == PLLData(r1)
                first == r1.m_length = 0
                r2 == IF first THEN [r1 EXCEPT !.m_count = data] ELSE r1
            IN  IF first /\ BadCount(r2.m_count)
                THEN [r2 EXCEPT !.m_active = FALSE, !.m_bad = r2.m_bad + 1]
                ELSE
                    LET r3 == [r2 EXCEPT !.m_buffer[r2.m_length] = data,
                                         !.m_length = U8(r2.m_length + 1)]
                        r4 == IF r3.m_length >= r3.m_count
                              THEN [r3 EXCEPT !.m_active = FALSE,
                                              !.m_good = r3.m_good + 1,
                                              !.m_done = TRUE]
                              ELSE r3
                    IN  [r4 EXCEPT !.m_bit_count = 0]

\* Mutant: the receiver stays active when the message is complete.
PLLActive_stay(r) ==
    LET bc == U8(r.m_bit_count + 1)
        r1 == [r EXCEPT !.m_bit_count = bc]
    IN  IF bc < 12 THEN r1
        ELSE
            LET data == PLLData(r1)
                first == r1.m_length = 0
                r2 == IF first THEN [r1 EXCEPT !.m_count = data] ELSE r1
            IN  IF first /\ BadCount(r2.m_count)
                THEN [r2 EXCEPT !.m_active = FALSE, !.m_bad = r2.m_bad + 1]
                ELSE
                    LET r3 == [r2 EXCEPT !.m_buffer[r2.m_length] = data,
                                         !.m_length = U8(r2.m_length + 1)]
                        r4 == IF r3.m_length >= r3.m_count
                              THEN [r3 EXCEPT !.m_good = r3.m_good + 1,
                                              !.m_done = TRUE]
                              ELSE r3
                    IN  [r4 EXCEPT !.m_bit_count = 0]

\* Lines 148-184: collect message bits while active.
PLLActive(r) ==
    LET bc == U8(r.m_bit_count + 1)
        r1 == [r EXCEPT !.m_bit_count = bc]
    IN  IF bc < 12 THEN r1
        ELSE
            LET data == PLLData(r1)
                first == r1.m_length = 0
                r2 == IF first THEN [r1 EXCEPT !.m_count = data] ELSE r1
            IN  IF first /\ BadCount(r2.m_count)
                THEN [r2 EXCEPT !.m_active = FALSE, !.m_bad = r2.m_bad + 1]
                ELSE
                    LET r3 == [r2 EXCEPT !.m_buffer[r2.m_length] = data,
                                         !.m_length = U8(r2.m_length + 1)]
                        r4 == IF r3.m_length >= r3.m_count
                              THEN [r3 EXCEPT !.m_active = FALSE,
                                              !.m_good = r3.m_good + 1,
                                              !.m_done = TRUE]
                              ELSE r3
                    IN  [r4 EXCEPT !.m_bit_count = 0]

\* Mutant: the unread message is kept when a new frame starts.
PLLStart_keepdone(r) ==
    IF r.m_bits = START_SYMBOL
    THEN [r EXCEPT !.m_active = TRUE, !.m_bit_count = 0, !.m_length = 0]
    ELSE r

\* Lines 186-194: look for the start symbol.
PLLStart(r) ==
    IF r.m_bits = START_SYMBOL
    THEN [r EXCEPT !.m_active = TRUE, !.m_bit_count = 0, !.m_length = 0,
                   !.m_done = FALSE]
    ELSE r

\* Receiver::PLL.
PLL(r) ==
    LET r1 == PLLRamp(r)
    IN  IF r1.m_pll_ramp >= RAMP_MAX
        THEN LET r2 == PLLVote(r1)
             IN  IF r2.m_active THEN PLLActive(r2) ELSE PLLStart(r2)
        ELSE r1


\* Caller memory handed to recv: larger than any capacity the caller
\* states, every cell unwritten (-1) before the call.
CallerBuffer == [i \in 0..(MESSAGE_MAX - 1) |-> -1]

\* Mutant: the caller's capacity is ignored.
recv_nocap(r, cap) ==
    IF ~r.m_done
    THEN [r |-> r, ret |-> FALSE, done |-> FALSE, len |-> cap, buf |-> CallerBuffer]
    ELSE
        LET len == U8(r.m_length + 256 - 3)
        IN  [r |-> [r EXCEPT !.m_done = FALSE],
             ret |-> (CRC(r.m_buffer, r.m_length) = CRC_RESIDUE),
             done |-> TRUE,
             len |-> len,
             buf |-> [i \in 0..(MESSAGE_MAX - 1) |->
                        IF i < len /\ 1 + i < MESSAGE_MAX THEN r.m_buffer[1 + i]
                        ELSE CallerBuffer[i]]]

\* Receiver::recv, run without an intervening interrupt.  cap is the
\* caller's *len on entry.
recv(r, cap) ==
    IF ~r.m_done
    THEN [r |-> r, ret |-> FALSE, done |-> FALSE, len |-> cap, buf |-> CallerBuffer]
    ELSE
        LET rxlen == U8(r.m_length + 256 - 3)
            len == IF cap > rxlen THEN rxlen ELSE cap
        IN  [r |-> [r EXCEPT !.m_done = FALSE],
             ret |-> (CRC(r.m_buffer, r.m_length) = CRC_RESIDUE),
             done |-> TRUE,
             len |-> len,
             buf |-> [i \in 0..(MESSAGE_MAX - 1) |->
                        IF i < len /\ 1 + i < MESSAGE_MAX THEN r.m_buffer[1 + i]
                        ELSE CallerBuffer[i]]]

(***************************************************************************)
(* The timer interrupt.  hasT/hasR say whether a Transmitter/Receiver is   *)
(* registered on the node, level is what the input pin reads.              *)
(***************************************************************************)
\* Mutant: the receiver runs whether or not the transmitter is enabled.
Gate_rxonly(hasT, t, hasR, r) == hasR /\ r.m_enabled

Gate(hasT, t, hasR, r) == hasR /\ r.m_enabled /\ (~hasT \/ ~t.m_enabled)

ISR(hasT, t, hasR, r, level, clears) ==
    LET r1 == IF Gate(hasT, t, hasR, r) THEN [r EXCEPT !.m_sample = level] ELSE r
        t1 == IF hasT THEN TxStep(t, clears) ELSE t
        r2 == IF Gate(hasT, t1, hasR, r1) THEN PLL(r1) ELSE r1
    IN  [t |-> t1, r |-> r2]

(***************************************************************************)
(* State.                                                                  *)
(***************************************************************************)
VARIABLES
    remote,       \* the remote node's Transmitter
    transmitter,  \* the local node's Transmitter
    receiver,     \* the local node's Receiver
    sent,         \* the payload of the remote node's latest send, and how
                  \* many frames it has armed
    flip,         \* on-air bit of the remote frame the channel inverts, or -1
    rcv,          \* what the latest local recv call returned, how many
                  \* calls have found a message, and the receiver's
                  \* m_active and m_good when it was called
    snd,          \* the latest local send call, where it stands (pc) and
                  \* how many calls have armed the transmitter
    tmr,          \* the latest _timer_calc / VWI::begin call and its results
    fg,           \* the local foreground inside Receiver::await or
                  \* Receiver::recv: its position and its locals
    pll           \* observations of the receiver's bit boundaries

vars == <<remote, transmitter, receiver, sent, flip, rcv, snd, tmr, fg, pll>>

NoPayload == [len |-> 0, buf |-> <<>>, n |-> 0]
NoRecv == [called |-> FALSE, done |-> FALSE, ret |-> FALSE, len |-> 0,
           buf |-> CallerBuffer, taken |-> 0, active |-> FALSE, good |-> 0,
           cap |-> 0]
NoSend == [pc |-> "idle", called |-> FALSE, len |-> 0, buf |-> <<>>,
           ret |-> FALSE, n |-> 0, waited |-> FALSE]
NoTimer == [called |-> FALSE, speed |-> 0, max_ticks |-> 0, ret |-> 0,
            nticks |-> 0, began |-> FALSE]
NoFg == [pc |-> "idle", ms |-> 0, elapsed |-> FALSE, seen |-> FALSE,
         cap |-> 0, rxlen |-> 0, len |-> 0, buf |-> CallerBuffer,
         found |-> FALSE, ret |-> FALSE, woke |-> FALSE, gap |-> FALSE,
         awaited |-> 0, received |-> 0]
NoPll == [on |-> FALSE, ramp0 |-> 0, last |-> -1, integ |-> 0, ticks |-> 0,
          act |-> 0, age |-> 0, noise |-> 0]

\* Payload bytes the model sends.
ByteVals == {0, 165, 255}

RECURSIVE BuffersOf(_)
BuffersOf(len) ==
    IF len = 0 THEN {<<>>}
    ELSE {Append(b, v) : b \in BuffersOf(len - 1), v \in ByteVals}

\* A payload as send sees it: a 0-based buffer.
AsBuf(seq) == [i \in 0..(Len(seq) - 1) |-> seq[i + 1]]

\* A full-length payload that runs through every nibble.
FullPayload == [i \in 1..PAYLOAD_MAX |-> (i * 19) % 256]

\* The on-air bit the remote transmitter is holding (-1 when idle).
AirBit(t) == IF t.m_enabled THEN 6 * t.m_index + t.m_bit - 1 ELSE -1

\* The level the local input pin reads while the remote transmitter is t.
ChannelOf(t) == IF flip >= 0 /\ AirBit(t) = flip THEN 1 - t.pin ELSE t.pin

InitCommon ==
    /\ remote = TransmitterInit
    /\ transmitter = TransmitterInit
    /\ receiver = ReceiverInit
    /\ sent = NoPayload
    /\ rcv = NoRecv
    /\ snd = NoSend
    /\ tmr = NoTimer
    /\ fg = NoFg
    /\ pll = NoPll

\* The remote node calls send(buf, len) on its idle transmitter; the
\* channel will invert on-air bit f of the frame (none when f = -1).  The
\* model stops after limit frames.
RemoteSend(seq, f, limit) ==
    /\ sent.n < limit
    /\ ~remote.m_enabled
    /\ ~SendRefused(Len(seq))
    /\ remote' = SendAssemble(remote, AsBuf(seq), Len(seq))
    /\ sent' = [len |-> Len(seq), buf |-> seq, n |-> sent.n + 1]
    /\ flip' = f
    /\ UNCHANGED <<transmitter, receiver, rcv, snd, tmr, fg, pll>>

\* The local foreground calls send(buf, len): refused at once when len is
\* too large; else await() returns at once when the transmitter is idle and
\* send assembles the frame and arms, or the call waits in await().  seq
\* holds the bytes of buf that send would read.
SendCall(seq, len) ==
    /\ snd.pc = "idle"
    /\ IF SendRefused(len)
       THEN /\ snd' = [snd EXCEPT !.called = TRUE, !.len = len, !.buf = seq,
                                  !.ret = FALSE]
            /\ UNCHANGED transmitter
       ELSE IF ~AwaitDone(transmitter)
       THEN /\ snd' = [snd EXCEPT !.pc = "await", !.called = TRUE, !.len = len,
                                  !.buf = seq]
            /\ UNCHANGED transmitter
       ELSE /\ snd' = [snd EXCEPT !.called = TRUE, !.len = len, !.buf = seq,
                                  !.ret = TRUE, !.n = snd.n + 1]
            /\ transmitter' = SendAssemble(transmitter, AsBuf(seq), len)
    /\ UNCHANGED <<remote, receiver, sent, flip, rcv, tmr, fg, pll>>

\* await() returns once the interrupt has disabled the transmitter: send
\* assembles the frame and arms.
SendResume ==
    /\ snd.pc = "await"
    /\ AwaitDone(transmitter)
    /\ transmitter' = SendAssemble(transmitter, AsBuf(snd.buf), snd.len)
    /\ snd' = [snd EXCEPT !.pc = "idle", !.ret = TRUE, !.n = snd.n + 1,
                           !.waited = TRUE]
    /\ UNCHANGED <<remote, receiver, sent, flip, rcv, tmr, fg, pll>>

\* end() runs on the tick that finds every symbol sent.
Ending(t) == t.m_enabled /\ t.m_sample = 0 /\ t.m_index >= t.m_length
Clears(t) == IF Ending(t) THEN BOOLEAN ELSE {FALSE}

\* One timer tick on both nodes: the remote interrupt, then the local one,
\* whose input pin reads the channel.
TickNodes ==
    \E cr \in Clears(remote), cl \in Clears(transmitter) :
        \E a \in {ISR(TRUE, remote, FALSE, ReceiverInit, 0, cr)} :
            \E b \in {ISR(TRUE, transmitter, TRUE, receiver, ChannelOf(a.t), cl)} :
                /\ remote' = a.t
                /\ transmitter' = b.t
                /\ receiver' = b.r

Tick == TickNodes /\ UNCHANGED <<sent, flip, rcv, snd, tmr, fg, pll>>

\* The local foreground calls recv with a buffer of cap bytes.
Recv(cap) ==
    \E x \in {recv(receiver, cap)} :
        /\ receiver' = x.r
        /\ rcv' = [called |-> TRUE, done |-> x.done, ret |-> x.ret,
                   len |-> x.len, buf |-> x.buf,
                   taken |-> IF x.done THEN rcv.taken + 1 ELSE rcv.taken,
                   active |-> receiver.m_active, good |-> receiver.m_good,
                   cap |-> cap]
        /\ UNCHANGED <<remote, transmitter, sent, flip, snd, tmr, fg, pll>>

(***************************************************************************)
(* Link: one frame from the remote node over a clean channel.              *)
(***************************************************************************)
LinkPayloads == UNION {BuffersOf(n) : n \in 1..MaxLen} \cup {FullPayload}

InitLink == InitCommon /\ flip = -1

NextLink ==
    \/ \E seq \in LinkPayloads : RemoteSend(seq, -1, 1)
    \/ Tick
    \/ Recv(PAYLOAD_MAX)

SpecLink == InitLink /\ [][NextLink]_vars


\* The first len bytes recv copied out, as a sequence.
Copied(x) == [i \in 1..x.len |-> x.buf[i - 1]]

\* The remote transmitter has sent its whole frame and disabled itself.
RemoteDone == sent.n > 0 /\ ~remote.m_enabled

(***************************************************************************)
(* C1: end-to-end delivery.  Once the remote transmitter has sent the last *)
(* bit of a frame carrying 1..PAYLOAD_MAX bytes over the clean channel,    *)
(* the receiver holds a completed message (done, unless recv has already   *)
(* taken it), and a recv that finds a message returns true (checksum       *)
(* valid) with exactly the sent length and the sent bytes.                 *)
(***************************************************************************)
C1_EndToEnd ==
    /\ RemoteDone => (receiver.m_done \/ rcv.taken > 0)
    /\ (rcv.called /\ rcv.done) =>
          /\ rcv.ret
          /\ rcv.len = sent.len
          /\ Copied(rcv) = sent.buf

C1_Witness ==
    /\ RemoteDone /\ sent.buf = FullPayload
    /\ rcv.called /\ rcv.done /\ rcv.ret /\ rcv.len = PAYLOAD_MAX


(***************************************************************************)
(* Corrupt: one frame from the remote node, one bit of one payload symbol  *)
(* inverted on the channel; the foreground waits for done, then calls recv.*)
(***************************************************************************)
CorruptPayloads == {<<1, 2, 3>>, <<240>>}

\* The on-air bits of the payload symbols of a frame of len bytes.
PayloadBits(len) == (6 * (HEADER_MAX + 2))..(6 * (HEADER_MAX + 2 + 2 * len) - 1)

\* The payload nibble the symbol holding on-air bit f encodes.
NibbleAt(seq, f) ==
    LET k == (f \div 6) - (HEADER_MAX + 2)
        byte == seq[(k \div 2) + 1]
    IN  IF k % 2 = 0 THEN byte \div 16 ELSE byte % 16

\* The payload with the nibble under on-air bit f read as 0.
ZeroedAt(seq, f) ==
    LET k == (f \div 6) - (HEADER_MAX + 2)
    IN  [i \in 1..Len(seq) |->
            IF i # (k \div 2) + 1 THEN seq[i]
            ELSE IF k % 2 = 0 THEN seq[i] % 16 ELSE (seq[i] \div 16) * 16]

AwaitRecv(cap) == receiver.m_done /\ Recv(cap)

InitCorrupt == InitCommon /\ flip = -1

NextCorrupt ==
    \/ \E seq \in CorruptPayloads : \E f \in PayloadBits(Len(seq)) : RemoteSend(seq, f, 1)
    \/ Tick
    \/ AwaitRecv(PAYLOAD_MAX)

SpecCorrupt == InitCorrupt /\ [][NextCorrupt]_vars

\* C2 as stated: every single-bit flip inside a payload symbol leaves the
\* frame complete and delivered, and the checksum reports invalid.
C2_Original ==
    /\ (RemoteDone /\ flip >= 0) => (receiver.m_done \/ rcv.taken > 0)
    /\ (rcv.called /\ rcv.done /\ flip >= 0) =>
          (rcv.len = sent.len /\ ~rcv.ret)

(***************************************************************************)
(* C2 (amended): a single-bit flip inside a payload symbol leaves the      *)
(* frame complete and delivered with the sent length; the flipped symbol   *)
(* decodes to nibble 0 and every other nibble is as sent; the checksum     *)
(* reports invalid exactly when the flipped symbol encoded a nonzero       *)
(* nibble (a flipped symbol of nibble 0 still decodes to 0: the frame is   *)
(* delivered unchanged and validates).                                     *)
(***************************************************************************)
C2_Corruption ==
    /\ (RemoteDone /\ flip >= 0) => (receiver.m_done \/ rcv.taken > 0)
    /\ (rcv.called /\ rcv.done /\ flip >= 0) =>
          /\ rcv.len = sent.len
          /\ Copied(rcv) = ZeroedAt(sent.buf, flip)
          /\ rcv.ret <=> (NibbleAt(sent.buf, flip) = 0)

C2_Witness ==
    /\ rcv.called /\ rcv.done /\ flip >= 0
    /\ sent.buf = <<1, 2, 3>> /\ NibbleAt(sent.buf, flip) = 3
    /\ ~rcv.ret /\ Copied(rcv) = <<1, 2, 0>>

\* C3 as stated: a completed message whose checksum does not validate is
\* reported by recv as delivered (success), unlike a call that finds no
\* message.
C3_Original == (rcv.called /\ rcv.done) => rcv.ret


(***************************************************************************)
(* Frame: send alone, over a wide set of payloads.                         *)
(***************************************************************************)
PatternStarts == {0, 90, 255}
PatternSteps == {0, 1, 37}
Pattern(len, a, d) == [i \in 1..len |-> (a + (i - 1) * d) % 256]

FramePayloads ==
    {<<>>} \cup {<<b>> : b \in 0..255}
    \cup {Pattern(len, a, d) : len \in 2..PAYLOAD_MAX, a \in PatternStarts, d \in PatternSteps}

InitFrame == InitCommon /\ flip = -1

NextFrame == \E seq \in FramePayloads : RemoteSend(seq, -1, 1)

SpecFrame == InitFrame /\ [][NextFrame]_vars

\* The frame {count, payload, fcs_lo, fcs_hi} of a payload.
FrameOf(seq) ==
    LET len == Len(seq)
        fcs == SendFcs(AsBuf(seq), len)
    IN  [i \in 0..(len + 2) |->
            IF i = 0 THEN U8(len + 3)
            ELSE IF i <= len THEN seq[i]
            ELSE IF i = len + 1 THEN fcs % 256
            ELSE fcs \div 256]

\* The bytes the symbols behind the header of transmitter t decode to.
DecodedFrame(t) ==
    [k \in 0..(((t.m_length - HEADER_MAX) \div 2) - 1) |->
        symbol_6to4(t.m_buffer[HEADER_MAX + 2 * k]) * 16
        + symbol_6to4(t.m_buffer[HEADER_MAX + 2 * k + 1])]

(***************************************************************************)
(* C4: checksum residue.  For every payload of 0..PAYLOAD_MAX bytes, CRC() *)
(* over {count, payload, fcs_lo, fcs_hi}, fcs being the complemented       *)
(* transmit-side CRC, is 0xF0B8, and these are the bytes that the symbols  *)
(* send wrote decode to (fcs low byte first).                              *)
(***************************************************************************)
C4_Residue ==
    sent.n > 0 =>
        /\ CRC(FrameOf(sent.buf), sent.len + 3) = CRC_RESIDUE
        /\ DecodedFrame(remote) = FrameOf(sent.buf)

C4_Witness ==
    /\ sent.n > 0 /\ sent.len = PAYLOAD_MAX
    /\ CRC(DecodedFrame(remote), MESSAGE_MAX) = CRC_RESIDUE

(***************************************************************************)
(* C5: codec round trip.  symbol_6to4(symbols[n]) = n for every nibble n,  *)
(* the 16 table entries are pairwise distinct 6-bit values, and the        *)
(* symbols send wrote for a payload decode to the payload's nibbles.       *)
(***************************************************************************)
C5_RoundTrip ==
    /\ \A n \in 0..15 : symbol_6to4(symbols[n]) = n /\ symbols[n] \in 0..63
    /\ \A m, n \in 0..15 : symbols[m] = symbols[n] => m = n
    /\ \A i \in 1..sent.len :
          /\ sent.n > 0
          /\ symbol_6to4(remote.m_buffer[HEADER_MAX + 2 * i]) = sent.buf[i] \div 16
          /\ symbol_6to4(remote.m_buffer[HEADER_MAX + 2 * i + 1]) = sent.buf[i] % 16

C5_Witness ==
    /\ sent.n > 0 /\ sent.buf = <<254>>
    /\ symbol_6to4(remote.m_buffer[HEADER_MAX + 2]) = 15
    /\ symbol_6to4(remote.m_buffer[HEADER_MAX + 3]) = 14


\* C10 as stated: 8 preamble symbols, then a 2-symbol start marker, 2
\* length symbols, 2*len payload symbols and 4 checksum symbols.
C10_Original == sent.n > 0 => remote.m_length = 16 + 2 * sent.len

(***************************************************************************)
(* C10 (amended): after a successful send of len bytes the symbol buffer   *)
(* holds the 8-symbol header (6 preamble symbols 0x2a, then the 2-symbol   *)
(* start marker 0x38 0x2c), 2 length symbols, 2*len payload symbols and 4  *)
(* checksum symbols: m_length = 14 + 2*len, and the transmitter has walked *)
(* all m_length symbols when it disables itself.                           *)
(***************************************************************************)
C10_FrameLength ==
    sent.n > 0 =>
        /\ remote.m_length = 14 + 2 * sent.len
        /\ \A i \in 0..5 : remote.m_buffer[i] = 42
        /\ remote.m_buffer[6] = 56 /\ remote.m_buffer[7] = 44
        /\ remote.m_buffer[HEADER_MAX] = symbols[(sent.len + 3) \div 16]
        /\ remote.m_buffer[HEADER_MAX + 1] = symbols[(sent.len + 3) % 16]
        /\ remote.m_index <= remote.m_length
        /\ ~remote.m_enabled => (remote.m_index = remote.m_length /\ remote.m_bit = 0)

C10_Witness ==
    /\ RemoteDone /\ sent.len = PAYLOAD_MAX
    /\ remote.m_index = SYMBOLS_MAX /\ remote.m_msg_count = 1

(***************************************************************************)
(* Raw: the remote node sends one frame whose length byte is forged; the   *)
(* frame carries one payload byte and is followed by silence.              *)
(***************************************************************************)
ForgedPayload == <<165>>

\* Length bytes forged at every tick phase; the others only at ramp 0.
ForgedCounts == {0, 1, 2, 3, 4, 5, 6, 29, 30, 31, 32, 255}

\* The remote frame for ForgedPayload with length byte c on the air.
Forge(t, c) ==
    LET f == SendAssemble(t, AsBuf(ForgedPayload), Len(ForgedPayload))
    IN  [f EXCEPT !.m_buffer[HEADER_MAX] = symbols[c \div 16],
                  !.m_buffer[HEADER_MAX + 1] = symbols[c % 16]]

RemoteForge(c) ==
    /\ sent.n < 1
    /\ ~remote.m_enabled
    /\ c \in ForgedCounts \/ receiver.m_pll_ramp = 0
    /\ remote' = Forge(remote, c)
    /\ sent' = [len |-> Len(ForgedPayload), buf |-> ForgedPayload, n |-> sent.n + 1]
    /\ UNCHANGED <<transmitter, receiver, flip, rcv, snd, tmr, fg, pll>>

InitRaw == InitCommon /\ flip = -1

NextRaw ==
    \/ \E c \in 0..255 : RemoteForge(c)
    \/ Tick

SpecRaw == InitRaw /\ [][NextRaw]_vars

\* A PLL step that reached a bit boundary.
Boundary == receiver'.m_pll_ramp < receiver.m_pll_ramp

\* The boundary that completes the first 12 bits after a start marker.
FirstByteStep ==
    /\ receiver.m_active /\ receiver.m_length = 0 /\ receiver.m_bit_count = 11
    /\ Boundary

\* The byte in the 12-bit window after the step.
FirstByte == (symbol_6to4(receiver'.m_bits % 64) * 16) + symbol_6to4(receiver'.m_bits \div 64)

(***************************************************************************)
(* C7: frame length check.  When the first byte decoded after a start      *)
(* marker is below 4 or above MESSAGE_MAX the receiver leaves the active   *)
(* state, bad grows by exactly one, good and done (false) stay and no byte *)
(* is stored; otherwise the byte is the declared length, it is stored      *)
(* first, and the frame completes (done, good + 1) at the decoded byte     *)
(* that brings m_length to exactly m_count.                                *)
(***************************************************************************)
C7_LengthCheck ==
    [][/\ FirstByteStep =>
           IF FirstByte < 4 \/ FirstByte > MESSAGE_MAX
           THEN /\ ~receiver'.m_active
                /\ receiver'.m_bad = receiver.m_bad + 1
                /\ receiver'.m_good = receiver.m_good
                /\ ~receiver.m_done /\ ~receiver'.m_done
                /\ receiver'.m_buffer = receiver.m_buffer
                /\ receiver'.m_length = 0
           ELSE /\ receiver'.m_active /\ ~receiver'.m_done
                /\ receiver'.m_count = FirstByte
                /\ receiver'.m_length = 1
                /\ receiver'.m_buffer[0] = FirstByte
                /\ receiver'.m_bad = receiver.m_bad
                /\ receiver'.m_good = receiver.m_good
       /\ (receiver.m_active /\ receiver.m_length > 0) =>
             receiver.m_length < receiver.m_count
       /\ (receiver.m_active /\ ~receiver'.m_active /\ ~FirstByteStep) =>
             /\ receiver'.m_done
             /\ receiver'.m_length = receiver.m_length + 1
             /\ receiver'.m_length = receiver'.m_count
             /\ receiver'.m_good = receiver.m_good + 1
             /\ receiver'.m_bad = receiver.m_bad
      ]_vars

C7_Witness ==
    /\ sent.n > 0 /\ receiver.m_count = 31 /\ receiver.m_bad = 1
    /\ ~receiver.m_active /\ ~receiver.m_done /\ receiver.m_length = 0


(***************************************************************************)
(* Two: the remote node sends two frames, the second after at least 12 bit *)
(* periods without a transition; recv may be called at any time.           *)
(***************************************************************************)
\* The first and the second frame's payload.
TwoPayloads == <<(<<17>>), (<<34, 51>>)>>

\* The line has been quiet for a whole 12-bit window.
Quiet == receiver.m_bits \in {0, 4095}

InitTwo == InitCommon /\ flip = -1

NextTwo ==
    \/ \E k \in {sent.n + 1} \cap DOMAIN TwoPayloads :
          Quiet /\ RemoteSend(TwoPayloads[k], -1, 2)
    \/ Tick
    \/ Recv(PAYLOAD_MAX)

SpecTwo == InitTwo /\ [][NextTwo]_vars

(***************************************************************************)
(* C8: at most one buffered message.  When the start marker is detected    *)
(* while done is true, done is cleared at that bit boundary and stays      *)
(* clear while the new frame is received; a recv issued while the new      *)
(* frame is being received reports no message, and a recv that finds a     *)
(* message after the second frame completed returns the second frame.      *)
(***************************************************************************)
C8_AtMostOne ==
    /\ receiver.m_active => ~receiver.m_done
    /\ (rcv.called /\ rcv.active) => (~rcv.done /\ ~rcv.ret)
    /\ (rcv.called /\ rcv.done /\ rcv.good = 2) =>
          (rcv.len = sent.len /\ Copied(rcv) = sent.buf)

C8_Witness ==
    /\ sent.n = 2 /\ receiver.m_active /\ receiver.m_good = 1
    /\ rcv.called /\ rcv.active /\ rcv.good = 1 /\ rcv.taken = 0 /\ ~rcv.done


(***************************************************************************)
(* Duplex: a remote frame is on the air from the start while the local     *)
(* foreground calls send, with a payload or with an oversized length.  The *)
(* calls explored are those made during the first bit of some symbols of   *)
(* the remote frame, or on a quiet line after it.                          *)
(***************************************************************************)
DuplexRemote == <<165>>
DuplexLocal == {<<90>>}
Oversized == {PAYLOAD_MAX + 1, 255}
DuplexSlots == {0, 5, 9, 13}

CallSlot ==
    \/ remote.m_enabled /\ remote.m_index \in DuplexSlots /\ remote.m_bit = 0
    \/ ~remote.m_enabled /\ Quiet

InitDuplex ==
    /\ remote = SendAssemble(TransmitterInit, AsBuf(DuplexRemote), Len(DuplexRemote))
    /\ sent = [len |-> Len(DuplexRemote), buf |-> DuplexRemote, n |-> 1]
    /\ transmitter = TransmitterInit
    /\ receiver = ReceiverInit
    /\ rcv = NoRecv
    /\ snd = NoSend
    /\ tmr = NoTimer
    /\ fg = NoFg
    /\ pll = NoPll
    /\ flip = -1

NextDuplex ==
    \/ Tick
    \/ \E seq \in DuplexLocal : CallSlot /\ snd.n < 1 /\ SendCall(seq, Len(seq))
    \/ \E len \in Oversized : CallSlot /\ SendCall([i \in 1..len |-> 0], len)

SpecDuplex == InitDuplex /\ [][NextDuplex]_vars

\* A step of send's entry: the call is recorded while no call is pending.
SendEntry == snd.pc = "idle" /\ snd' # snd

(***************************************************************************)
(* C6: oversized send.  A send with len > PAYLOAD_MAX returns failure in   *)
(* the step of the call, without going through await() even while a        *)
(* transmission is in progress, and changes no Transmitter field.          *)
(***************************************************************************)
C6_Oversized ==
    [][(SendEntry /\ snd'.len > PAYLOAD_MAX) =>
           /\ snd'.pc = "idle" /\ ~snd'.ret /\ snd'.n = snd.n
           /\ transmitter' = transmitter
      ]_vars

C6_Witness ==
    /\ snd.called /\ snd.len = PAYLOAD_MAX + 1 /\ ~snd.ret /\ snd.pc = "idle"
    /\ snd.n = 1 /\ transmitter.m_enabled /\ transmitter.m_index > 0

\* A timer tick that finds the local transmitter enabled and leaves it so.
TxTick ==
    /\ transmitter.m_enabled /\ transmitter'.m_enabled
    /\ transmitter'.m_sample # transmitter.m_sample

(***************************************************************************)
(* C9: half-duplex gating.  On every interrupt tick during which the       *)
(* registered Transmitter is enabled from start to end the input pin is    *)
(* not sampled and the PLL is not run: no Receiver field changes.          *)
(***************************************************************************)
C9_HalfDuplex == [][TxTick => receiver' = receiver]_vars

C9_Witness ==
    /\ transmitter.m_enabled /\ transmitter.m_index > 2
    /\ remote.m_enabled /\ receiver.m_active
    /\ receiver.m_sample # ChannelOf(remote)

(***************************************************************************)
(* Timer: the prescaler calculation behind VWI::begin.                     *)
(***************************************************************************)
\* The CPU clock the program is built for.
F_CPU == 16000000

prescalers ==
    [p \in 0..6 |->
        CASE p = 0 -> 0 [] p = 1 -> 1 [] p = 2 -> 8 [] p = 3 -> 64
          [] p = 4 -> 256 [] p = 5 -> 1024 [] p = 6 -> 3333]

\* Lines 93-97: long(bit_time / clock_time).  For this clock the single
\* precision quotient truncates to the integer quotient for every uint16_t
\* speed and every entry of prescalers[].
TickCount(speed, p) == F_CPU \div (prescalers[p] * speed * 8)

\* Lines 91-103: the loop; prescaler is 7 when it runs out.
RECURSIVE TimerScan(_, _, _)
TimerScan(speed, max_ticks, p) ==
    IF p >= 7 THEN [prescaler |-> p, ulticks |-> TickCount(speed, 6)]
    ELSE LET ulticks == TickCount(speed, p)
         IN  IF ulticks > 1 /\ ulticks < max_ticks
             THEN [prescaler |-> p, ulticks |-> ulticks]
             ELSE TimerScan(speed, max_ticks, p + 1)

\* _timer_calc: the value returned and the value left in *nticks.
timer_calc(speed, max_ticks) ==
    IF speed = 0 THEN [ret |-> 0, nticks |-> 0]
    ELSE LET x == TimerScan(speed, max_ticks, 1)
         IN  IF x.prescaler = 6 \/ x.ulticks < 2 \/ x.ulticks > max_ticks
             THEN [ret |-> 0, nticks |-> 0]
             ELSE [ret |-> x.prescaler, nticks |-> U16(x.ulticks)]

\* VWI::begin up to its early return: TRUE when it goes on to program the
\* timer.  max_ticks is (uint8_t)-1 or (uint16_t)-1 in the builds.
VWI_begin(speed, max_ticks) == timer_calc(speed, max_ticks).ret # 0

\* Bit rates and counter limits the calculation is run with.
TimerSpeeds == (0..2048) \cup {4000, 9600, 19200, 32768, 65535}
TimerMaxTicks == {2, 3, 255, 300, 1000, 65535}

TimerCalc(speed, max_ticks) ==
    /\ ~tmr.called
    /\ \E x \in {timer_calc(speed, max_ticks)} :
          tmr' = [called |-> TRUE, speed |-> speed, max_ticks |-> max_ticks,
                  ret |-> x.ret, nticks |-> x.nticks,
                  began |-> VWI_begin(speed, max_ticks)]
    /\ UNCHANGED <<remote, transmitter, receiver, sent, flip, rcv, snd, fg, pll>>

InitTimer == InitCommon /\ flip = -1

NextTimer == \E speed \in TimerSpeeds, max_ticks \in TimerMaxTicks : TimerCalc(speed, max_ticks)

SpecTimer == InitTimer /\ [][NextTimer]_vars

\* The dividers 1, 8, 64, 256, 1024 (by index) whose tick count for the
\* latest call lies in [2, max_ticks].
InRange == {p \in 1..5 : TickCount(tmr.speed, p) >= 2 /\ TickCount(tmr.speed, p) <= tmr.max_ticks}

CopyPayload == <<17, 34, 51>>
CopyCaps == {0, 2, 3, PAYLOAD_MAX, 255}

InitCopy == InitCommon /\ flip = -1

NextCopy ==
    \/ RemoteSend(CopyPayload, -1, 1)
    \/ Tick
    \/ \E cap \in CopyCaps : Recv(cap)

SpecCopy == InitCopy /\ [][NextCopy]_vars

\* A step of a recv call whose outcome differs from the previous call's.
RecvStep == rcv' # rcv

(***************************************************************************)
(* C13: recv copy.  A recv that finds done set stores the smaller of the   *)
(* caller's length and m_length - 3 in the caller's length, copies that    *)
(* many bytes from m_buffer[1..] (so never one of the 2 checksum bytes),   *)
(* leaves every other caller byte unwritten and clears done, changing      *)
(* nothing else; a recv that finds done clear reports no message and       *)
(* changes neither the caller's length and bytes nor the receiver, which   *)
(* is what a second recv meets.                                            *)
(***************************************************************************)
C13_RecvCopy ==
    [][RecvStep =>
          IF receiver.m_done
          THEN /\ rcv'.done
               /\ rcv'.len = (IF rcv'.cap > receiver.m_length - 3
                              THEN receiver.m_length - 3 ELSE rcv'.cap)
               /\ \A i \in 0..(MESSAGE_MAX - 1) :
                     rcv'.buf[i] = (IF i < rcv'.len THEN receiver.m_buffer[1 + i] ELSE -1)
               /\ rcv'.len + 1 <= receiver.m_length - 2
               /\ receiver' = [receiver EXCEPT !.m_done = FALSE]
          ELSE /\ ~rcv'.done /\ ~rcv'.ret
               /\ rcv'.len = rcv'.cap
               /\ rcv'.buf = CallerBuffer
               /\ receiver' = receiver
      ]_vars

C13_Witness ==
    /\ rcv.called /\ rcv.done /\ rcv.cap = 2 /\ rcv.len = 2 /\ rcv.taken = 1
    /\ rcv.buf[0] = 17 /\ rcv.buf[1] = 34 /\ rcv.buf[2] = -1
    /\ ~receiver.m_done /\ receiver.m_length = 6

(***************************************************************************)
(* Lock: the receiver's ramp starts anywhere in [0, RAMP_MAX) when the     *)
(* remote node begins a frame on a clean channel; each bit boundary of the *)
(* receiver is paired with the transmitted bit that fills most of the 8    *)
(* ticks before it.                                                        *)
(***************************************************************************)
LockPayload == <<165, 60>>

\* Transmitted bit k of the frame in transmitter t (symbols LSB first).
TxBit(t, k) == Bit(t.m_buffer[k \div 6], k % 6)

\* Ticks for which transmitter t has held its current bit, this one included.
HeldTicks(t) == IF t.m_sample = 0 THEN SAMPLES_PER_BIT ELSE t.m_sample

\* The transmitted bit a boundary decides while the remote transmitter is t.
DecidedBit(t) == IF HeldTicks(t) >= 5 THEN AirBit(t) ELSE AirBit(t) - 1

\* One timer tick on both nodes, with the bit boundaries observed.
TickLock ==
    /\ TickNodes
    /\ pll' = IF remote'.m_enabled /\ receiver'.m_pll_ramp < receiver.m_pll_ramp
              THEN [pll EXCEPT !.last = DecidedBit(remote')]
              ELSE pll
    /\ UNCHANGED <<sent, flip, rcv, snd, tmr, fg>>

InitLock ==
    /\ remote = SendAssemble(TransmitterInit, AsBuf(LockPayload), Len(LockPayload))
    /\ sent = [len |-> Len(LockPayload), buf |-> LockPayload, n |-> 1]
    /\ transmitter = TransmitterInit
    /\ \E ramp \in 0..(RAMP_MAX - 1) :
          /\ receiver = [ReceiverInit EXCEPT !.m_pll_ramp = ramp]
          /\ pll = [NoPll EXCEPT !.on = TRUE, !.ramp0 = ramp]
    /\ rcv = NoRecv
    /\ snd = NoSend
    /\ tmr = NoTimer
    /\ fg = NoFg
    /\ flip = -1

NextLock == TickLock

SpecLock == InitLock /\ [][NextLock]_vars

\* Bit periods after which the receiver is in lock.
LockBound == 8

(***************************************************************************)
(* C14: PLL lock.  From every initial ramp value in [0, RAMP_MAX), on a    *)
(* clean frame whose bits each last 8 ticks, from transmitted bit          *)
(* LockBound on (LockBound is below the 36 preamble bits) every bit        *)
(* boundary decides the transmitted bit that follows the one the previous  *)
(* boundary decided, the bit shifted into the register equals that         *)
(* transmitted bit, and the frame is received.                             *)
(***************************************************************************)
C14_Lock ==
    [][/\ (remote'.m_enabled /\ receiver'.m_pll_ramp < receiver.m_pll_ramp
           /\ pll'.last >= LockBound) =>
              (/\ LockBound < 6 * (HEADER_MAX - 2)
               /\ pll'.last = pll.last + 1
               /\ Bit(receiver'.m_bits, 11) = TxBit(remote, pll'.last))
       /\ (remote.m_enabled /\ ~remote'.m_enabled) =>
              (/\ pll.last >= 6 * remote.m_length - 2
               /\ receiver'.m_active \/ receiver'.m_done)
      ]_vars

C14_Witness ==
    /\ pll.on /\ pll.ramp0 = 87 /\ pll.last >= 6 * remote.m_length - 2
    /\ receiver.m_done /\ receiver.m_good = 1 /\ receiver.m_length = 5
    /\ CRC(receiver.m_buffer, receiver.m_length) = CRC_RESIDUE

(***************************************************************************)
(* Noise: nothing is transmitted and the input pin reads an arbitrary      *)
(* level on each of MaxTicks ticks.                                        *)
(***************************************************************************)
TickNoise(level) ==
    /\ pll.ticks < MaxTicks
    /\ \E b \in {ISR(TRUE, transmitter, TRUE, receiver, level, FALSE)} :
          /\ transmitter' = b.t
          /\ receiver' = b.r
          /\ pll' = [pll EXCEPT !.ticks = pll.ticks + 1,
                                !.integ = IF b.r.m_pll_ramp < receiver.m_pll_ramp
                                          THEN receiver.m_integrator + level
                                          ELSE pll.integ]
    /\ UNCHANGED <<remote, sent, flip, rcv, snd, tmr, fg>>

InitNoise == InitCommon /\ flip = -1

NextNoise == \E level \in {0, 1} : TickNoise(level)

SpecNoise == InitNoise /\ [][NextNoise]_vars

(***************************************************************************)
(* C15: majority vote.  At every bit boundary the register is shifted      *)
(* right by one and its top bit (0x800) is 1 iff the integrator, the       *)
(* sample of this tick included, is at least 5 (5 gives 1, 4 gives 0), and *)
(* the integrator is 0 after the boundary.                                 *)
(***************************************************************************)
C15_Majority ==
    [][receiver'.m_pll_ramp < receiver.m_pll_ramp =>
           /\ Bit(receiver'.m_bits, 11) =
                 (IF receiver.m_integrator + receiver'.m_sample >= 5 THEN 1 ELSE 0)
           /\ receiver'.m_bits % 2048 = receiver.m_bits \div 2
           /\ receiver'.m_integrator = 0
           /\ (pll'.integ = 5 => Bit(receiver'.m_bits, 11) = 1)
           /\ (pll'.integ = 4 => Bit(receiver'.m_bits, 11) = 0)
      ]_vars

C15_Witness ==
    /\ pll.integ = 5 /\ receiver.m_bits = 2048
    /\ receiver.m_integrator = 0

(***************************************************************************)
(* Send: the local foreground sends two frames, the second call made at    *)
(* any time, also while the first frame is being sent; the line is quiet.  *)
(***************************************************************************)
SendPayloads == {<<90>>, <<1, 2>>}
SendCalls == 2

InitSend == InitCommon /\ flip = -1

NextSend ==
    \/ Tick
    \/ \E seq \in SendPayloads : snd.n < SendCalls /\ SendCall(seq, Len(seq))
    \/ SendResume

SpecSend == InitSend /\ [][NextSend]_vars

\* The timer interrupt keeps firing.
SpecSendLive == SpecSend /\ WF_vars(Tick)

(***************************************************************************)
(* C16: transmission completes.  While interrupt ticks keep firing, after  *)
(* the k-th successful send the transmitter eventually is disabled with    *)
(* the sent-message counter at k; the counter always equals the number of  *)
(* sends that armed the transmitter, less the one still being sent, so it  *)
(* grows by exactly one per send and not again until the next send.        *)
(***************************************************************************)
C16_Completes ==
    /\ [](transmitter.m_msg_count =
             snd.n - (IF transmitter.m_enabled THEN 1 ELSE 0))
    /\ (transmitter.m_enabled /\ snd.n = 1) ~>
          (~transmitter.m_enabled /\ transmitter.m_msg_count = 1)
    /\ (transmitter.m_enabled /\ snd.n = 2) ~>
          (~transmitter.m_enabled /\ transmitter.m_msg_count = 2)

C16_Witness ==
    /\ snd.n = 2 /\ ~transmitter.m_enabled /\ transmitter.m_msg_count = 2
    /\ transmitter.m_index = transmitter.m_length

\* A step of the foreground send that writes the Transmitter.
SendWrites == snd' # snd /\ transmitter' # transmitter

(***************************************************************************)
(* C17: send does not disturb a frame in flight.  The symbol buffer and    *)
(* m_length never change while m_enabled is true, send writes the          *)
(* Transmitter only when m_enabled is false, and when it does every frame  *)
(* armed before has been output to its last bit (m_index = m_length, all   *)
(* earlier frames counted).                                                *)
(***************************************************************************)
C17_NoDisturb ==
    [][/\ transmitter.m_enabled =>
             (/\ transmitter'.m_buffer = transmitter.m_buffer
              /\ transmitter'.m_length = transmitter.m_length)
       /\ SendWrites =>
             (/\ ~transmitter.m_enabled
              /\ transmitter.m_msg_count = snd.n
              /\ transmitter.m_index = transmitter.m_length
              /\ transmitter.m_bit = 0)
      ]_vars

C17_Witness ==
    /\ snd.n = 2 /\ snd.waited /\ transmitter.m_enabled
    /\ transmitter.m_msg_count = 1 /\ transmitter.m_index > HEADER_MAX

(***************************************************************************)
(* Race: the remote node sends two frames; the local foreground calls      *)
(* Receiver::await and Receiver::recv, whose statements interleave with    *)
(* the timer interrupt.  Each read of m_done, m_length or m_buffer sees    *)
(* what the interrupt has left at that moment.  A statement is far shorter *)
(* than the timer period: at most one interrupt falls between two          *)
(* statements of a call (any number while await spins in its loop).        *)
(***************************************************************************)
RacePayloads == <<(<<17>>), (<<34, 51>>)>>
RaceTimeouts == {0, 1}

\* The foreground is between two statements of a call.
MidCall == fg.pc \notin {"idle", "await_loop"}

\* One timer tick that interrupts the local foreground.
TickRace ==
    /\ ~(MidCall /\ fg.gap)
    /\ TickNodes
    /\ fg' = [fg EXCEPT !.gap = MidCall]
    /\ UNCHANGED <<sent, flip, rcv, snd, tmr, pll>>

\* await(ms) is entered (lines 266-270).
AwaitCall(ms) ==
    /\ fg.pc = "idle" /\ fg.awaited < 1
    /\ fg' = [fg EXCEPT !.pc = "await_loop", !.ms = ms, !.elapsed = FALSE,
                        !.seen = FALSE]
    /\ UNCHANGED <<remote, transmitter, receiver, sent, flip, rcv, snd, tmr, pll>>

\* The loop test reads m_done and finds it set (lines 267, 271).
AwaitSeen ==
    /\ fg.pc = "await_loop" /\ receiver.m_done
    /\ fg' = [fg EXCEPT !.pc = "await_ret", !.seen = TRUE, !.gap = FALSE]
    /\ UNCHANGED <<remote, transmitter, receiver, sent, flip, rcv, snd, tmr, pll>>

\* The loop test finds ms milliseconds elapsed (line 271).
AwaitElapsed ==
    /\ fg.pc = "await_loop" /\ fg.ms > 0 /\ ~receiver.m_done
    /\ fg' = [fg EXCEPT !.pc = "await_ret", !.elapsed = TRUE, !.gap = FALSE]
    /\ UNCHANGED <<remote, transmitter, receiver, sent, flip, rcv, snd, tmr, pll>>

\* return (m_done): m_done is read again (line 273).
AwaitReturn ==
    /\ fg.pc = "await_ret"
    /\ fg' = [fg EXCEPT !.pc = "idle", !.woke = receiver.m_done, !.gap = FALSE,
                        !.awaited = fg.awaited + 1]
    /\ UNCHANGED <<remote, transmitter, receiver, sent, flip, rcv, snd, tmr, pll>>

\* recv is entered and tests m_done (line 282).
RecvCall(cap) ==
    /\ fg.pc = "idle" /\ fg.received < 1
    /\ fg' = IF receiver.m_done
             THEN [fg EXCEPT !.pc = "recv_len", !.cap = cap, !.len = cap,
                             !.found = TRUE, !.buf = CallerBuffer, !.gap = FALSE]
             ELSE [fg EXCEPT !.cap = cap, !.len = cap, !.found = FALSE,
                             !.ret = FALSE, !.buf = CallerBuffer,
                             !.received = fg.received + 1]
    /\ UNCHANGED <<remote, transmitter, receiver, sent, flip, rcv, snd, tmr, pll>>

\* rxlen = m_length - 3 (line 286).
RecvLen ==
    /\ fg.pc = "recv_len"
    /\ fg' = [fg EXCEPT !.pc = "recv_copy", !.gap = FALSE,
                        !.rxlen = U8(receiver.m_length + 256 - 3)]
    /\ UNCHANGED <<remote, transmitter, receiver, sent, flip, rcv, snd, tmr, pll>>

\* The length is clamped and the bytes are copied (lines 289-291).
RecvCopy ==
    /\ fg.pc = "recv_copy"
    /\ \E len \in {IF fg.cap > fg.rxlen THEN fg.rxlen ELSE fg.cap} :
          fg' = [fg EXCEPT !.pc = "recv_clear", !.len = len, !.gap = FALSE,
                           !.buf = [i \in 0..(MESSAGE_MAX - 1) |->
                                       IF i < len /\ 1 + i < MESSAGE_MAX
                                       THEN receiver.m_buffer[1 + i]
                                       ELSE CallerBuffer[i]]]
    /\ UNCHANGED <<remote, transmitter, receiver, sent, flip, rcv, snd, tmr, pll>>

\* m_done = false (line 294).
RecvClear ==
    /\ fg.pc = "recv_clear"
    /\ receiver' = [receiver EXCEPT !.m_done = FALSE]
    /\ fg' = [fg EXCEPT !.pc = "recv_crc", !.gap = FALSE]
    /\ UNCHANGED <<remote, transmitter, sent, flip, rcv, snd, tmr, pll>>

\* return (CRC(m_buffer, m_length) == 0xf0b8) (line 297).
RecvReturn ==
    /\ fg.pc = "recv_crc"
    /\ fg' = [fg EXCEPT !.pc = "idle", !.gap = FALSE,
                        !.ret = (CRC(receiver.m_buffer, receiver.m_length) = CRC_RESIDUE),
                        !.received = fg.received + 1]
    /\ UNCHANGED <<remote, transmitter, receiver, sent, flip, rcv, snd, tmr, pll>>

InitRace == InitCommon /\ flip = -1

NextRace ==
    \/ \E k \in {sent.n + 1} \cap DOMAIN RacePayloads :
          Quiet /\ RemoteSend(RacePayloads[k], -1, 2)
    \/ TickRace
    \/ \E ms \in RaceTimeouts : AwaitCall(ms)
    \/ AwaitSeen
    \/ AwaitElapsed
    \/ AwaitReturn
    \/ RecvCall(PAYLOAD_MAX)
    \/ RecvLen
    \/ RecvCopy
    \/ RecvClear
    \/ RecvReturn

SpecRace == InitRace /\ [][NextRace]_vars

\* C18 as stated: await(0) returns only after it has seen done set and
\* then returns true; await(ms > 0) returns false only when the time has
\* elapsed.
C18_Original ==
    (fg.awaited > 0 /\ fg.pc = "idle") =>
        /\ fg.ms = 0 => (fg.seen /\ fg.woke)
        /\ (fg.ms > 0 /\ ~fg.woke) => fg.elapsed

\* C19 as stated: a recv that passes its done check reports at most
\* MESSAGE_MAX - 3 bytes, and its length, bytes and verdict are those of one
\* completed message: here one of the frames sent, which the clean channel
\* delivers with a valid checksum.
C19_Original ==
    (fg.received > 0 /\ fg.found /\ fg.pc = "idle") =>
        /\ fg.len <= MESSAGE_MAX - 3
        /\ \E k \in 1..sent.n :
              /\ fg.len = Len(RacePayloads[k])
              /\ Copied(fg) = RacePayloads[k]
              /\ fg.ret

\* A step in which the receiver's PLL ran: every PLL step moves the ramp.
PLLRan == receiver'.m_pll_ramp # receiver.m_pll_ramp

\* C20 as stated: on every tick on which the PLL step runs, the half-duplex
\* condition held at the start of the tick, so the input pin was sampled
\* into m_sample in that same tick.
C20_Original == [][PLLRan => Gate(TRUE, transmitter, TRUE, receiver)]_vars

(***************************************************************************)
(* Order: the remote node sends one frame; the ticks since its transmitter *)
(* was armed are counted.                                                  *)
(***************************************************************************)
OrderPayloads == {<<>>, <<165>>, <<1, 2>>, FullPayload}

\* One timer tick on both nodes, counted while the remote transmitter is
\* enabled.
TickOrder ==
    /\ TickNodes
    /\ pll' = IF remote.m_enabled THEN [pll EXCEPT !.ticks = pll.ticks + 1] ELSE pll
    /\ UNCHANGED <<sent, flip, rcv, snd, tmr, fg>>

InitOrder == InitCommon /\ flip = -1

NextOrder ==
    \/ \E seq \in OrderPayloads : RemoteSend(seq, -1, 1)
    \/ TickOrder

SpecOrder == InitOrder /\ [][NextOrder]_vars

(***************************************************************************)
(* C21: transmit bit order and timing.  On tick n after arming (n = 1 is   *)
(* the first tick) m_sample is n mod 8 afterwards; on the ticks n = 8k + 1 *)
(* with k < 6 * m_length the transmitter writes bit k mod 6 of             *)
(* m_buffer[k div 6] and on no other tick does the pin, m_index or m_bit   *)
(* change; the buffer never changes; the transmitter stays enabled until   *)
(* tick 8 * 6 * m_length + 1, on which it is disabled and counted.         *)
(***************************************************************************)
C21_BitOrder ==
    [][(remote.m_enabled /\ pll'.ticks = pll.ticks + 1) =>
          /\ remote'.m_buffer = remote.m_buffer
          /\ remote'.m_length = remote.m_length
          /\ remote'.m_sample = pll'.ticks % 8
          /\ IF pll'.ticks = 8 * 6 * remote.m_length + 1
             THEN /\ ~remote'.m_enabled
                  /\ remote'.m_msg_count = remote.m_msg_count + 1
                  /\ remote'.m_index = remote.m_length
             ELSE /\ remote'.m_enabled
                  /\ remote'.m_msg_count = remote.m_msg_count
                  /\ IF pll'.ticks % 8 = 1
                     THEN /\ AirBit(remote') = (pll'.ticks - 1) \div 8
                          /\ remote'.pin = TxBit(remote, (pll'.ticks - 1) \div 8)
                          /\ 6 * remote'.m_index + remote'.m_bit
                                = 6 * remote.m_index + remote.m_bit + 1
                     ELSE /\ remote'.pin = remote.pin
                          /\ remote'.m_index = remote.m_index
                          /\ remote'.m_bit = remote.m_bit
      ]_vars

C21_Witness ==
    /\ sent.len = PAYLOAD_MAX /\ ~remote.m_enabled /\ remote.m_msg_count = 1
    /\ pll.ticks = 8 * 6 * SYMBOLS_MAX + 1

\* C22 as stated: under every input level sequence the integrator is
\* within 0..8 in every state, and so is the value the majority vote reads
\* at a bit boundary.
C22_Original ==
    /\ receiver.m_integrator \in 0..SAMPLES_PER_BIT
    /\ pll.integ \in 0..SAMPLES_PER_BIT

\* C23 as stated: in every state, active or not, also after a frame was
\* rejected at its length byte, m_bit_count is within 0..11.
C23_Original == receiver.m_bit_count \in 0..11

(***************************************************************************)
(* C22 (amended): under every input level sequence the integrator, and the *)
(* value the majority vote reads at a bit boundary, is within 0..9: a bit  *)
(* period that a transition has retarded holds 9 samples, and 9 high       *)
(* samples are counted in it.                                              *)
(***************************************************************************)
C22_Integrator ==
    /\ receiver.m_integrator \in 0..(SAMPLES_PER_BIT + 1)
    /\ pll.integ \in 0..(SAMPLES_PER_BIT + 1)
    /\ receiver.m_integrator <= pll.ticks

C22_Witness ==
    /\ pll.integ = SAMPLES_PER_BIT + 1 /\ pll.ticks = SAMPLES_PER_BIT + 1
    /\ receiver.m_integrator = 0 /\ receiver.m_bits = 2048

(***************************************************************************)
(* C23 (amended): m_bit_count is within 0..11 while the receiver is        *)
(* active and within 0..12 in every state; it is 12 only when the receiver *)
(* is inactive after a frame was rejected at its length byte, whose 12th   *)
(* bit was counted and the counter left as it was.                         *)
(***************************************************************************)
C23_BitCount ==
    /\ receiver.m_bit_count \in 0..12
    /\ receiver.m_active => receiver.m_bit_count <= 11
    /\ receiver.m_bit_count = 12 =>
          (/\ ~receiver.m_active /\ ~receiver.m_done
           /\ receiver.m_bad > 0 /\ receiver.m_length = 0
           /\ (receiver.m_count < 4 \/ receiver.m_count > MESSAGE_MAX))

C23_Witness ==
    /\ receiver.m_bit_count = 12 /\ ~receiver.m_active
    /\ receiver.m_bad = 1 /\ receiver.m_count = 3

(***************************************************************************)
(* C24: ramp bound.  After every PLL step 0 <= m_pll_ramp < RAMP_MAX; a    *)
(* step adds 11, 20 or 29 to the ramp, which stays below 2 * RAMP_MAX, so  *)
(* a tick has at most one bit boundary (one shift of the register); at a   *)
(* boundary the ramp afterwards is the ramp reached less RAMP_MAX.         *)
(***************************************************************************)
C24_Ramp ==
    [][pll'.ticks = pll.ticks + 1 =>
          LET inc == IF receiver'.m_sample = receiver.m_last_sample THEN RAMP_INC
                     ELSE IF receiver.m_pll_ramp < RAMP_TRANSITION
                          THEN RAMP_INC_RETARD ELSE RAMP_INC_ADVANCE
              reached == receiver.m_pll_ramp + inc
          IN  /\ receiver'.m_pll_ramp \in 0..(RAMP_MAX - 1)
              /\ reached < 2 * RAMP_MAX
              /\ IF reached >= RAMP_MAX
                 THEN /\ receiver'.m_pll_ramp = reached - RAMP_MAX
                      /\ receiver'.m_bits % 2048 = receiver.m_bits \div 2
                      /\ receiver'.m_integrator = 0
                 ELSE /\ receiver'.m_pll_ramp = reached
                      /\ receiver'.m_bits = receiver.m_bits
      ]_vars

C24_Witness ==
    /\ pll.ticks = 9 /\ receiver.m_pll_ramp = 11
    /\ receiver.m_integrator = 0 /\ receiver.m_bits = 2048

\* The transmitted bit that ends the header.
HeaderEnd == 6 * HEADER_MAX - 1

(***************************************************************************)
(* C25: start marker agreement.  The header's last two symbols, each sent  *)
(* least-significant bit first, fill the 12-bit register with 0xb38 (the   *)
(* first in the low 6 bits); while the header is received by an inactive   *)
(* receiver, from any initial ramp, the register differs from 0xb38 and    *)
(* the receiver stays inactive at every bit boundary before the one that   *)
(* decides the header's last bit, and at that boundary the register is     *)
(* 0xb38 and the receiver becomes active, there and nowhere else.          *)
(***************************************************************************)
C25_StartMarker ==
    [][/\ header[HEADER_MAX - 2] + 64 * header[HEADER_MAX - 1] = START_SYMBOL
       /\ (remote'.m_enabled /\ receiver'.m_pll_ramp < receiver.m_pll_ramp) =>
             (/\ pll'.last < HeaderEnd =>
                    (receiver'.m_bits # START_SYMBOL /\ ~receiver'.m_active)
              /\ pll'.last = HeaderEnd =>
                    (/\ receiver'.m_bits = START_SYMBOL
                     /\ ~receiver.m_active /\ receiver'.m_active
                     /\ receiver'.m_bit_count = 0 /\ receiver'.m_length = 0))
       /\ (~receiver.m_active /\ receiver'.m_active) => pll'.last = HeaderEnd
       /\ (remote.m_enabled /\ ~remote'.m_enabled) => pll.last >= HeaderEnd
      ]_vars

C25_Witness ==
    /\ pll.on /\ pll.ramp0 = 87 /\ pll.last = HeaderEnd
    /\ receiver.m_active /\ receiver.m_bits = START_SYMBOL
    /\ receiver.m_bit_count = 0

(***************************************************************************)
(* C26: done and active exclude each other and the message is stable while *)
(* done.  In no state are m_done and m_active both true; a step that finds *)
(* done set and leaves it set changes neither m_buffer, m_length nor       *)
(* m_count; done is cleared only by a recv that takes the message or by    *)
(* the bit boundary that detects a start marker.                           *)
(***************************************************************************)
C26_Stable ==
    [][/\ ~(receiver.m_done /\ receiver.m_active)
       /\ ~(receiver'.m_done /\ receiver'.m_active)
       /\ (receiver.m_done /\ receiver'.m_done) =>
             (/\ receiver'.m_buffer = receiver.m_buffer
              /\ receiver'.m_length = receiver.m_length
              /\ receiver'.m_count = receiver.m_count)
       /\ (receiver.m_done /\ ~receiver'.m_done) =>
             (\/ /\ rcv'.taken = rcv.taken + 1
                 /\ receiver' = [receiver EXCEPT !.m_done = FALSE]
              \/ /\ rcv' = rcv
                 /\ receiver'.m_active /\ receiver'.m_bits = START_SYMBOL
                 /\ receiver'.m_length = 0)
      ]_vars

C26_Witness ==
    /\ receiver.m_done /\ ~receiver.m_active /\ receiver.m_good = 1
    /\ sent.n = 2 /\ remote.m_enabled /\ remote.m_index >= HEADER_MAX - 1
    /\ receiver.m_length = 4 /\ receiver.m_buffer[1] = 17

(***************************************************************************)
(* C27: receive buffer bounds.  Every PLL step that stores a byte stores   *)
(* it at index m_length with m_length < m_count <= MESSAGE_MAX and changes *)
(* no other cell, m_buffer changes in no other step, and whenever done is  *)
(* true 4 <= m_length = m_count <= MESSAGE_MAX.                            *)
(***************************************************************************)
C27_Bounds ==
    [][/\ receiver'.m_length = receiver.m_length + 1 =>
             (/\ receiver.m_active
              /\ receiver.m_length < receiver'.m_count
              /\ receiver'.m_count <= MESSAGE_MAX
              /\ \A i \in 0..(MESSAGE_MAX - 1) :
                    i # receiver.m_length =>
                        receiver'.m_buffer[i] = receiver.m_buffer[i])
       /\ receiver'.m_buffer # receiver.m_buffer =>
             receiver'.m_length = receiver.m_length + 1
       /\ receiver'.m_done =>
             (/\ 4 <= receiver'.m_length
              /\ receiver'.m_length = receiver'.m_count
              /\ receiver'.m_count <= MESSAGE_MAX)
      ]_vars

C27_Witness ==
    /\ receiver.m_done /\ receiver.m_length = MESSAGE_MAX
    /\ receiver.m_count = MESSAGE_MAX /\ receiver.m_buffer[1] = 165

(***************************************************************************)
(* Ends: the remote node sends one frame whose length byte is forged; the  *)
(* line then carries silence or a periodic noise pattern.  The bit         *)
(* boundaries the receiver meets while active are counted from the start   *)
(* marker.                                                                 *)
(***************************************************************************)
EndsCounts == {0, 3, 4, 5, MESSAGE_MAX, MESSAGE_MAX + 1, 255}

\* The free-running receiver ramp values at which the frame may start.
EndsPhases == {0, 100}

\* Line levels after the frame, one per tick, repeated: stuck high, a
\* toggle on every tick, and a square wave of one bit time per half period.
EndsNoise == << <<1>>, <<0, 1>>, <<1, 1, 1, 1, 1, 1, 1, 1, 0, 0, 0, 0, 0, 0, 0, 0>> >>
NoisePeriod == 2 * SAMPLES_PER_BIT

\* The level of the idle line: silence when no pattern is chosen.
NoiseLevel ==
    IF pll.noise = 0 THEN 0
    ELSE EndsNoise[pll.noise][(pll.ticks % Len(EndsNoise[pll.noise])) + 1]

\* The remote node sends the forged frame; k picks what follows it.
EndsForge(c, k) ==
    /\ sent.n < 1
    /\ ~remote.m_enabled
    /\ receiver.m_pll_ramp \in EndsPhases
    /\ remote' = Forge(remote, c)
    /\ sent' = [len |-> Len(ForgedPayload), buf |-> ForgedPayload, n |-> sent.n + 1]
    /\ pll' = [pll EXCEPT !.noise = k]
    /\ UNCHANGED <<transmitter, receiver, flip, rcv, snd, tmr, fg>>

\* One timer tick on both nodes: the local input pin reads the remote pin
\* while the remote transmitter is enabled and the idle line after it.  The
\* boundaries and the ticks of a reception are counted.
TickEnds ==
    /\ \E cr \in Clears(remote) :
          \E a \in {ISR(TRUE, remote, FALSE, ReceiverInit, 0, cr)} :
              \E b \in {ISR(TRUE, transmitter, TRUE, receiver,
                            IF a.t.m_enabled THEN a.t.pin ELSE NoiseLevel,
                            FALSE)} :
                  /\ remote' = a.t
                  /\ transmitter' = b.t
                  /\ receiver' = b.r
    /\ pll' = [pll EXCEPT
                 !.ticks = IF pll.noise = 0 THEN 0
                           ELSE (pll.ticks + 1) % NoisePeriod,
                 !.act = IF ~receiver.m_active /\ receiver'.m_active THEN 0
                         ELSE IF receiver.m_active
                                 /\ receiver'.m_pll_ramp < receiver.m_pll_ramp
                         THEN pll.act + 1
                         ELSE pll.act,
                 !.age = IF ~receiver.m_active /\ receiver'.m_active THEN 0
                         ELSE IF receiver.m_active THEN pll.age + 1
                         ELSE pll.age]
    /\ UNCHANGED <<sent, flip, rcv, snd, tmr, fg>>

InitEnds == InitCommon /\ flip = -1

NextEnds ==
    \/ \E c \in EndsCounts, k \in 0..Len(EndsNoise) : EndsForge(c, k)
    \/ TickEnds

SpecEnds == InitEnds /\ [][NextEnds]_vars

\* The most ticks between two bit boundaries: the ramp grows by at least
\* RAMP_INC_RETARD on every tick.
BoundaryTicks == RAMP_MAX \div RAMP_INC_RETARD + 1

(***************************************************************************)
(* C28: reception always ends.  While PLL steps keep running, an active    *)
(* receiver has met 12 * m_length + m_bit_count bit boundaries since the   *)
(* start marker, fewer than 12 * MESSAGE_MAX, and a boundary comes within  *)
(* every BoundaryTicks ticks, so the active state lasts a bounded number   *)
(* of ticks; the receiver leaves it at a boundary no later than the        *)
(* 12 * MESSAGE_MAX-th, either rejecting the length byte at the 12th       *)
(* (bad + 1, done false) or marking the message done at the                *)
(* 12 * m_count-th (good + 1).                                             *)
(***************************************************************************)
C28_Ends ==
    /\ [](/\ pll.act <= 12 * MESSAGE_MAX
          /\ pll.age <= BoundaryTicks * 12 * MESSAGE_MAX
          /\ receiver.m_active =>
                (/\ pll.act = 12 * receiver.m_length + receiver.m_bit_count
                 /\ pll.act < 12 * MESSAGE_MAX
                 /\ pll.age < BoundaryTicks * (pll.act + 1)))
    /\ [][(receiver.m_active /\ ~receiver'.m_active) =>
             (/\ receiver'.m_pll_ramp < receiver.m_pll_ramp
              /\ \/ /\ receiver'.m_bad = receiver.m_bad + 1 /\ ~receiver'.m_done
                    /\ pll'.act = 12
                 \/ /\ receiver'.m_good = receiver.m_good + 1 /\ receiver'.m_done
                    /\ pll'.act = 12 * receiver'.m_count)
         ]_vars

C28_Witness ==
    /\ ~receiver.m_active /\ receiver.m_done /\ receiver.m_count = MESSAGE_MAX
    /\ pll.act = 12 * MESSAGE_MAX /\ pll.noise = 2


(***************************************************************************)
(* Empty: the remote node sends one frame, with no payload or with one     *)
(* byte, over a clean channel; recv may be called at any time.             *)
(***************************************************************************)
EmptyPayloads == {<<>>, <<165>>}

InitEmpty == InitCommon /\ flip = -1

NextEmpty ==
    \/ \E seq \in EmptyPayloads : RemoteSend(seq, -1, 1)
    \/ Tick
    \/ Recv(PAYLOAD_MAX)

SpecEmpty == InitEmpty /\ [][NextEmpty]_vars

\* The count byte of the frame the remote transmitter holds.
CountSent ==
    16 * symbol_6to4(remote.m_buffer[HEADER_MAX])
       + symbol_6to4(remote.m_buffer[HEADER_MAX + 1])

(***************************************************************************)
(* C29: empty payloads are sent but never delivered.  send with len = 0    *)
(* is accepted and assembles a frame of HEADER_MAX + 6 symbols whose count *)
(* byte is 3; the receiver never marks it done and never counts it good;   *)
(* once the frame is sent the bad counter is 1 and the receiver is         *)
(* inactive; every recv returns false without a message, and no recv ever  *)
(* finds a message of length 0.                                            *)
(***************************************************************************)
C29_Empty ==
    /\ (sent.n > 0 /\ sent.len = 0) =>
          /\ remote.m_length = HEADER_MAX + 6
          /\ CountSent = 3
          /\ ~receiver.m_done /\ receiver.m_good = 0
          /\ receiver.m_bad <= 1
          /\ RemoteDone => (receiver.m_bad = 1 /\ ~receiver.m_active)
          /\ rcv.called => (~rcv.done /\ ~rcv.ret)
    /\ (rcv.called /\ rcv.done) => rcv.len > 0

C29_Witness ==
    /\ sent.n = 1 /\ sent.len = 0 /\ RemoteDone
    /\ receiver.m_bad = 1 /\ receiver.m_count = 3 /\ ~receiver.m_active
    /\ rcv.called /\ ~rcv.done

=============================================================================
